---- MODULE Spec2Model ----
(***************************************************************************)
(* Model of trulow/electron_launcher_creator:                              *)
(*   electron_launcher_creator.py  (prober, scanner, selector, osacompile  *)
(*                                  launcher generation)                   *)
(*   create_vscode_launcher.py     (fixed-target script + bundle launcher) *)
(*                                                                         *)
(* Encoding of strings that the code takes apart:                          *)
(*   - a file name is the sequence of its '.'-separated segments,          *)
(*     "app.asar" = <<"app","asar">>, ".H.app" = <<"","H","app">>;         *)
(*   - a path is the sequence of its '/'-separated names,                  *)
(*     "/tmp/out" = << <<"">>, <<"tmp">>, <<"out">> >>;                    *)
(*   - a selection field is a sequence of one-character strings.           *)
(***************************************************************************)
EXTENDS Integers, Sequences, FiniteSets, TLC

\* ------------------------------------------------------------------ bounds
\* deepest position of an entry inside a probed bundle
MaxDepth == 2

\* number of entries in a probed bundle
MaxNodes == 3

\* number of entries of the directory given to the scanner alone
MaxEntries == 2

\* number of entries of the directory scanned in a full run
MaxApps == 2

\* number of comma-separated fields of a selection line
MaxFields == 2

\* ------------------------------------------------------- generic helpers
Last(s) == s[Len(s)]

Front(s) == SubSeq(s, 1, Len(s) - 1)

\* sequences over S of length lo..hi
SeqsOf(S, lo, hi) == UNION { [1..n -> S] : n \in lo..hi }

\* --------------------------------------------------------- names and glob
ishiddenNever(n) == FALSE

\* glob._ishidden as used by glob1/_rlistdir (include_hidden=False): the name
\* starts with '.'
ishidden(n) == Len(n) >= 2 /\ n[1] = ""

\* str.endswith('.app')
EndsWithApp(n) == Len(n) >= 2 /\ Last(n) = "app"

\* fnmatch(name, "*.app") after the hidden filter of glob1
MatchStarApp(n) == ~ishidden(n) /\ EndsWithApp(n)

electron_indicators ==
  << <<"Electron Framework", "framework">>, <<"electron", "asar">>, <<"app", "asar">> >>

\* names found inside bundles in this model; the last one is a nested bundle
DirNames  == { <<"Contents">>, <<"", "hid">>, <<"Electron Framework", "framework">>,
               <<"Nested", "app">> }
FileNames == { <<"electron", "asar">>, <<"app", "asar">>, <<"Info", "plist">> }
CompNames == DirNames \cup FileNames

\* ------------------------------------------------------------ bundle trees
\* A bundle's content is the set of its entries' paths relative to the bundle
\* root; an entry is a directory iff its name is in DirNames.
IsDirPath(t, p) == p \in t /\ Last(p) \in DirNames

CandPaths(depth) ==
  { p \in SeqsOf(CompNames, 1, depth) : \A i \in 1..(Len(p) - 1) : p[i] \in DirNames }

RECURSIVE TreesUpTo(_, _)
TreesUpTo(k, depth) ==
  IF k = 0 THEN { {} }
  ELSE LET prev == TreesUpTo(k - 1, depth)
       IN  prev \cup UNION { { t \cup {p} :
                                  p \in { q \in CandPaths(depth) : Len(q) = 1 \/ Front(q) \in t } } :
                                t \in prev }

\* access rights of the bundle directory for the running user:
\*   "rx" listable and searchable, "x" searchable only, "none" neither
Perms == { "rx", "x", "none" }

\* glob._rlistdir / _glob2(app_path, "**"): the bundle root itself (the empty
\* relative path) and, recursively, every non-hidden entry of every listed
\* directory.  os.scandir fails on a directory that cannot be read and the
\* failure is swallowed, yielding nothing below it.
RecursiveDirs(t, perm) ==
  IF perm = "none" THEN {}
  ELSE { <<>> } \cup
       (IF perm = "x" THEN {}
        ELSE { p \in t : /\ \A i \in 1..Len(p) : ~ishidden(p[i])
                         /\ \A i \in 1..(Len(p) - 1) : SubSeq(p, 1, i) \in t } )

\* glob.glob(os.path.join(app_path, "**", indicator), recursive=True): for each
\* directory d produced by "**", glob0 tests lexists(d/indicator).
GlobIndicator(t, perm, indicator) ==
  { Append(d, indicator) : d \in { e \in RecursiveDirs(t, perm) : e = <<>> \/ IsDirPath(t, e) } }
    \cap t

\* is_electron_app on the bundle whose content is t
IsElectronTree(t, perm) ==
  \E i \in 1..Len(electron_indicators) : GlobIndicator(t, perm, electron_indicators[i]) # {}

\* ------------------------------------------------------- scanned directory
\* A directory on disk: exists/readable flags and its entries in the order
\* os.scandir lists them.  An entry has a name, a content tree and rights.
NoDisk == [exists |-> FALSE, readable |-> FALSE, entries |-> <<>>]

EntryAt(disk, n) ==
  IF \E i \in 1..Len(disk.entries) : disk.entries[i].name = n
  THEN disk.entries[CHOOSE i \in 1..Len(disk.entries) : disk.entries[i].name = n]
  ELSE [name |-> n, tree |-> {}, perm |-> "none"]

\* is_electron_app(app_path) for app_path = dir/n
is_electron_app(disk, n) ==
  LET e == EntryAt(disk, n) IN IsElectronTree(e.tree, e.perm)

\* glob.glob(os.path.join(directory, "*.app")): glob1 lists the directory
\* (nothing when it is missing or unreadable), drops hidden names and keeps
\* the names matching "*.app", in listing order.  Results are relative paths.
GlobApps(disk) ==
  IF ~disk.exists \/ ~disk.readable THEN <<>>
  ELSE LET names == [i \in 1..Len(disk.entries) |-> <<disk.entries[i].name>>]
       IN  SelectSeq(names, LAMBDA p : MatchStarApp(p[1]))

find_electron_appsUnfiltered(disk) == GlobApps(disk)

find_electron_apps(disk) ==
  SelectSeq(GlobApps(disk), LAMBDA p : is_electron_app(disk, p[1]))

\* ------------------------------------------------------------------ state
VARIABLES
  platform,       \* platform.system()
  entry,          \* which script runs, or which function is applied
  argv,           \* parsed command line
  disk,           \* the directory given to the scanner
  fs,             \* every other file and directory, a set of nodes
  pc,             \* position of the program
  ret,            \* value returned by the function applied (prober, scanner)
  electron_apps,  \* main: result of the scan
  choice,         \* main: the line read from the operator
  selected_apps,  \* main: the applications selected
  idx,            \* main: position of the for loop over selected_apps
  calls,          \* arguments of every create_launcher call so far
  cl,             \* locals of the running generator call
  exc,            \* exception that left main / exit status
  ops,            \* filesystem, process and prompt operations, in order
  out             \* messages printed

vars == << platform, entry, argv, disk, fs, pc, ret, electron_apps, choice,
           selected_apps, idx, calls, cl, exc, ops, out >>

NoArgs == [app |-> <<>>, name |-> <<>>, output |-> <<>>, scan_dir |-> <<>>,
           list_only |-> FALSE]

NoFrame == [app_path |-> <<>>, app_name |-> <<>>, output_path |-> <<>>,
            launcher_path |-> <<>>, temp_file_path |-> <<>>, result |-> "", caller |-> ""]

Idle ==
  /\ platform = "Darwin" /\ argv = NoArgs /\ fs = {}
  /\ electron_apps = <<>> /\ choice = <<>> /\ selected_apps = <<>> /\ idx = 0
  /\ calls = <<>> /\ cl = NoFrame /\ exc = "none" /\ ops = <<>> /\ out = <<>>

UnchangedMain ==
  UNCHANGED << platform, entry, argv, disk, fs, electron_apps, choice,
               selected_apps, idx, calls, cl, exc, ops, out >>

\* ------------------------------------------------ prober specification
ProbeName == <<"A", "app">>

InitProbe ==
  /\ Idle
  /\ entry = "is_electron_app"
  /\ \E t \in TreesUpTo(MaxNodes, MaxDepth), perm \in Perms :
       disk = [exists |-> TRUE, readable |-> TRUE,
               entries |-> << [name |-> ProbeName, tree |-> t, perm |-> perm] >>]
  /\ pc = "call"
  /\ ret = <<>>

\* is_electron_app(app_path)
Probe ==
  /\ entry = "is_electron_app" /\ pc = "call"
  /\ ret' = << is_electron_app(disk, ProbeName) >>
  /\ pc' = "returned"
  /\ UnchangedMain

NextProbe == Probe

SpecProbe == InitProbe /\ [][NextProbe]_vars

\* ----------------------------------------------- scanner specification
ScanNames == { <<"A", "app">>, <<"B", "app">>, <<"", "H", "app">>, <<"C">> }

ScanTrees == TreesUpTo(1, 1)

ScanEntries == [name : ScanNames, tree : ScanTrees, perm : {"rx"}]

DistinctNames(es) == \A i, j \in 1..Len(es) : es[i].name = es[j].name => i = j

Disks(entries, n) ==
  { NoDisk } \cup
  { [exists |-> TRUE, readable |-> r, entries |-> es] :
      r \in BOOLEAN, es \in { s \in SeqsOf(entries, 0, n) : DistinctNames(s) } }

InitScan ==
  /\ Idle
  /\ entry = "find_electron_apps"
  /\ disk \in Disks(ScanEntries, MaxEntries)
  /\ pc = "call"
  /\ ret = <<>>

\* find_electron_apps(directory)
Scan ==
  /\ entry = "find_electron_apps" /\ pc = "call"
  /\ ret' = find_electron_apps(disk)
  /\ pc' = "returned"
  /\ UnchangedMain

NextScan == Scan

SpecScan == InitScan /\ [][NextScan]_vars

\* --------------------------------------------------- paths and the file system
Home == << <<"">>, <<"Users">>, <<"me">> >>

Desktop == << <<"~">>, <<"Desktop">> >>

\* os.path.expanduser: a leading "~" component becomes the home directory
expanduser(p) == IF p # <<>> /\ Head(p) = <<"~">> THEN Home \o Tail(p) ELSE p

\* os.path.join(directory, name)
join(d, n) == Append(d, n)

\* os.path.basename
basename(p) == Last(p)

\* get_app_name(app_path): the base name without a trailing '.app'
get_app_name(app_path) ==
  LET base_name == basename(app_path)
  IN  IF Len(base_name) >= 2 /\ Last(base_name) = "app" THEN Front(base_name) ELSE base_name

\* f"{original_name} with OpenGL"
WithOpenGL(n) == Front(n) \o << Last(n) \o " with OpenGL" >>

\* f"{app_name}.ext"
WithExt(n, ext) == Append(n, ext)

NoContent == [text |-> "", target |-> <<>>]

DirNode(p) == [path |-> p, kind |-> "dir", mode |-> "default", content |-> NoContent]

FileNode(p, mode, content) == [path |-> p, kind |-> "file", mode |-> mode, content |-> content]

\* os.path.exists
exists(f, p) == \E n \in f : n.path = p

NodeAt(f, p) == CHOOSE n \in f : n.path = p

\* os.makedirs(p) / os.makedirs(p, exist_ok=True): p and its missing ancestors
makedirs(f, p) ==
  f \cup { DirNode(SubSeq(p, 1, k)) : k \in { j \in 1..Len(p) : ~exists(f, SubSeq(p, 1, j)) } }

\* open(p, "w").write(content): creates or truncates, keeps an existing mode
writefile(f, p, content) ==
  { n \in f : n.path # p } \cup
  { FileNode(p, IF exists(f, p) THEN NodeAt(f, p).mode ELSE "default", content) }

chmodNot(f, p) == f

\* os.chmod(p, 0o755)
chmod755(f, p) ==
  { n \in f : n.path # p } \cup { [NodeAt(f, p) EXCEPT !.mode = "0o755"] }

unlinkNot(f, p) == f

\* os.unlink(p)
unlink(f, p) == { n \in f : n.path # p }

Op(o, p) == [op |-> o, path |-> p]

\* the operations of "if not os.path.exists(d): os.makedirs(d)"
EnsureDirOps(f, d) ==
  IF exists(f, d) THEN << Op("exists", d) >> ELSE << Op("exists", d), Op("makedirs", d) >>

EnsureDir(f, d) == IF exists(f, d) THEN f ELSE makedirs(f, d)

\* --------------------------------------------------------------- inputs
Applications == << <<"">>, <<"Applications">> >>

vscode_path == join(Applications, <<"Visual Studio Code", "app">>)

IconPath == << <<"", "">>, <<"icons">>, <<"code_gl", "icns">> >>

TildeOut == << <<"~">>, <<"out">> >>

TmpOut == << <<"">>, <<"tmp">>, <<"out">> >>

Outputs == { <<>>, TildeOut, TmpOut }

CustomName == << "My GL" >>

AppArgs == { join(Applications, <<"Slack", "app">>),
             << <<"~">>, <<"Applications">>, <<"My App", "app">> >> }

ElectronTree == { << <<"Contents">> >>, << <<"Contents">>, <<"app", "asar">> >> }

MainEntries ==
  { [name |-> <<"A", "app">>, tree |-> ElectronTree, perm |-> "rx"],
    [name |-> <<"B", "app">>, tree |-> ElectronTree, perm |-> "rx"],
    [name |-> <<"C", "app">>, tree |-> {}, perm |-> "rx"] }

MainDisks ==
  { d \in Disks(MainEntries, MaxApps) : d.exists => d.readable }

BaseFs == { DirNode(SubSeq(Home, 1, k)) : k \in 1..Len(Home) }
            \cup { DirNode(Applications), DirNode(SubSeq(TmpOut, 1, 2)) }

\* selection fields, as sequences of characters
FieldSet ==
  { <<"q">>, <<"Q">>, <<"a", "l", "l">>, <<"A", "L", "L">>, <<"1">>, <<"2">>, <<"4">>,
    <<"0">>, <<"-", "1">>, <<" ", "2", " ">>, <<"x">> }

\* a line is the sequence of its comma-separated fields (str.split(','))
Lines == SeqsOf(FieldSet, 1, MaxFields)

CompilerOutcomes == { "ok", "nonzero", "cannot_start" }

\* ------------------------------------------------------ selection parsing
LowerChar(c) ==
  CASE c = "Q" -> "q" [] c = "A" -> "a" [] c = "L" -> "l" [] c = "X" -> "x" [] OTHER -> c

\* str.lower
Lower(f) == [i \in 1..Len(f) |-> LowerChar(f[i])]

RECURSIVE lstrip(_)
lstrip(f) == IF f # <<>> /\ Head(f) = " " THEN lstrip(Tail(f)) ELSE f

RECURSIVE rstrip(_)
rstrip(f) == IF f # <<>> /\ Last(f) = " " THEN rstrip(Front(f)) ELSE f

\* str.strip
strip(f) == rstrip(lstrip(f))

Digits == { "0", "1", "2", "3", "4", "5", "6", "7", "8", "9" }

DigitVal(c) ==
  CASE c = "0" -> 0 [] c = "1" -> 1 [] c = "2" -> 2 [] c = "3" -> 3 [] c = "4" -> 4
    [] c = "5" -> 5 [] c = "6" -> 6 [] c = "7" -> 7 [] c = "8" -> 8 [] c = "9" -> 9

RECURSIVE DecVal(_)
DecVal(ds) == IF ds = <<>> THEN 0 ELSE DecVal(Front(ds)) * 10 + DigitVal(Last(ds))

\* int(s): optional sign and decimal digits, surrounding blanks ignored;
\* ok = FALSE stands for ValueError
int(f) ==
  LET s    == strip(f)
      sgn  == s # <<>> /\ Head(s) \in { "+", "-" }
      body == IF sgn THEN Tail(s) ELSE s
      ok   == body # <<>> /\ \A i \in 1..Len(body) : body[i] \in Digits
  IN  [ok |-> ok,
       val |-> IF ~ok THEN 0 ELSE IF sgn /\ Head(s) = "-" THEN 0 - DecVal(body) ELSE DecVal(body)]

\* int(idx.strip()) of one field of the selection line
ParseField(f) == int(strip(f))

\* choice.lower() == word, for a word without a comma
LineIs(line, word) == Len(line) = 1 /\ Lower(line[1]) = word

InRangeSkipFirst(i, n) == 1 <= i /\ i < n

\* the filter "0 <= idx < len(electron_apps)"
InRange(i, n) == 0 <= i /\ i < n

ParseSelectionLenient(line, apps) ==
  LET good == SelectSeq(line, LAMBDA f : ParseField(f).ok)
      kept == SelectSeq([k \in 1..Len(good) |-> ParseField(good[k]).val - 1],
                        LAMBDA i : InRange(i, Len(apps)))
  IN  [ok |-> TRUE, apps |-> [k \in 1..Len(kept) |-> apps[kept[k] + 1]]]

\* lines 199-200: the list comprehension over the fields; ok = FALSE stands for
\* the ValueError of the first comprehension
ParseSelection(line, apps) ==
  LET parsed  == [k \in 1..Len(line) |-> ParseField(line[k])]
      ok      == \A k \in 1..Len(line) : parsed[k].ok
      indices == [k \in 1..Len(line) |-> parsed[k].val - 1]
      kept    == SelectSeq(indices, LAMBDA i : InRange(i, Len(apps)))
  IN  [ok |-> ok,
       apps |-> IF ok THEN [k \in 1..Len(kept) |-> apps[kept[k] + 1]] ELSE <<>>]

\* ---------------------------------------- electron_launcher_creator.py runs
ScanArgs ==
  { a \in { [NoArgs EXCEPT !.scan_dir = d, !.list_only = l, !.output = o] :
              d \in { <<>>, Applications }, l \in BOOLEAN, o \in { <<>>, TildeOut } } :
      a.scan_dir # <<>> \/ a.list_only }

AppModeArgs ==
  { [NoArgs EXCEPT !.app = a, !.name = n, !.output = o] :
      a \in AppArgs, n \in { <<>>, CustomName }, o \in Outputs }

InitElectron ==
  /\ entry = "electron_launcher_creator"
  /\ platform \in { "Darwin", "Linux" }
  /\ \/ /\ argv \in ScanArgs
        /\ disk \in MainDisks
        /\ fs = BaseFs
     \/ /\ argv \in AppModeArgs
        /\ disk = NoDisk
        /\ \E target \in BOOLEAN, outdir \in BOOLEAN :
             fs = BaseFs \cup (IF target THEN { DirNode(expanduser(argv.app)) } ELSE {})
                         \cup (IF outdir THEN { DirNode(TmpOut) } ELSE {})
     \/ /\ argv = NoArgs
        /\ disk = NoDisk
        /\ fs = BaseFs
  /\ pc = "main" /\ ret = <<>>
  /\ electron_apps = <<>> /\ choice = <<>> /\ selected_apps = <<>> /\ idx = 0
  /\ calls = <<>> /\ cl = NoFrame /\ exc = "none" /\ ops = <<>> /\ out = <<>>

IsElectronRun == entry = "electron_launcher_creator"

\* entering create_launcher(app_path, app_name, output_path)
Call(app_path, app_name, output_path, caller) ==
  /\ calls' = Append(calls, [app_path |-> app_path, app_name |-> app_name,
                             output_path |-> output_path])
  /\ cl' = [NoFrame EXCEPT !.app_path = app_path, !.app_name = app_name,
                           !.output_path = output_path, !.caller = caller]
  /\ pc' = "create_launcher"

\* platform.system() == "Darwin"
PlatformOk(p) == p = "Darwin"

\* main, lines 152-155: the platform check
E_WrongPlatform ==
  /\ IsElectronRun /\ pc = "main"
  /\ ~PlatformOk(platform)
  /\ out' = Append(out, "Error: This script only works on macOS")
  /\ exc' = "SystemExit(1)"
  /\ pc' = "exited"
  /\ UNCHANGED << platform, entry, argv, disk, fs, ret, electron_apps, choice,
                  selected_apps, idx, calls, cl, ops >>

\* main, lines 167-169: --app
E_AppMode ==
  /\ IsElectronRun /\ pc = "main"
  /\ PlatformOk(platform)
  /\ argv.app # <<>>
  /\ Call(argv.app, argv.name, argv.output, "app")
  /\ UNCHANGED << platform, entry, argv, disk, fs, ret, electron_apps, choice,
                  selected_apps, idx, exc, ops, out >>

\* main, lines 170-185: --scan-dir / --list-only up to the prompt
E_ScanMode ==
  /\ IsElectronRun /\ pc = "main"
  /\ PlatformOk(platform)
  /\ argv.app = <<>>
  /\ argv.scan_dir # <<>> \/ argv.list_only
  /\ LET scan_dir == IF argv.scan_dir # <<>> THEN argv.scan_dir ELSE Applications
         found    == find_electron_apps(disk)
     IN
       /\ electron_apps' = [k \in 1..Len(found) |-> expanduser(scan_dir) \o found[k]]
       /\ ops' = Append(ops, Op("glob", expanduser(scan_dir)))
       /\ IF found = <<>>
          THEN /\ out' = Append(out, "No Electron applications found")
               /\ pc' = "done"
          ELSE /\ out' = Append(out, "Found Electron applications")
               /\ pc' = IF argv.list_only THEN "done" ELSE "prompt"
  /\ UNCHANGED << platform, entry, argv, disk, fs, ret, choice, selected_apps, idx,
                  calls, cl, exc >>

\* main, lines 208-210: no arguments
E_Help ==
  /\ IsElectronRun /\ pc = "main"
  /\ PlatformOk(platform)
  /\ argv.app = <<>> /\ argv.scan_dir = <<>> /\ ~argv.list_only
  /\ out' = Append(out, "usage")
  /\ pc' = "done"
  /\ UNCHANGED << platform, entry, argv, disk, fs, ret, electron_apps, choice,
                  selected_apps, idx, calls, cl, exc, ops >>

\* main, lines 187-203: read the selection line and parse it
E_Select ==
  /\ IsElectronRun /\ pc = "prompt"
  /\ \E line \in Lines :
       /\ choice' = line
       /\ ops' = Append(ops, Op("input", <<>>))
       /\ IF LineIs(line, <<"q">>)
          THEN /\ pc' = "done"
               /\ UNCHANGED << selected_apps, idx, out >>
          ELSE IF LineIs(line, <<"a", "l", "l">>)
          THEN /\ selected_apps' = electron_apps
               /\ idx' = 1
               /\ pc' = "loop"
               /\ UNCHANGED out
          ELSE LET sel == ParseSelection(line, electron_apps) IN
               IF sel.ok
               THEN /\ selected_apps' = sel.apps
                    /\ idx' = 1
                    /\ pc' = "loop"
                    /\ UNCHANGED out
               ELSE /\ out' = Append(out, "Invalid selection")
                    /\ pc' = "done"
                    /\ UNCHANGED << selected_apps, idx >>
  /\ UNCHANGED << platform, entry, argv, disk, fs, ret, electron_apps, calls, cl, exc >>

\* main, lines 206-207: the next iteration of the loop over selected_apps
E_Loop ==
  /\ IsElectronRun /\ pc = "loop"
  /\ idx <= Len(selected_apps)
  /\ Call(selected_apps[idx], <<>>, argv.output, "loop")
  /\ UNCHANGED << platform, entry, argv, disk, fs, ret, electron_apps, choice,
                  selected_apps, idx, exc, ops, out >>

\* main, line 206: the loop is exhausted
E_LoopEnd ==
  /\ IsElectronRun /\ pc = "loop"
  /\ idx > Len(selected_apps)
  /\ pc' = "done"
  /\ UNCHANGED << platform, entry, argv, disk, fs, ret, electron_apps, choice,
                  selected_apps, idx, calls, cl, exc, ops, out >>

\* create_launcher, lines 79-96: names, paths and the output directory
CL_Prepare ==
  /\ IsElectronRun /\ pc = "create_launcher"
  /\ LET app_path    == expanduser(cl.app_path)
         app_name    == IF cl.app_name = <<>> THEN WithOpenGL(get_app_name(app_path))
                        ELSE cl.app_name
         output_path == IF cl.output_path = <<>> THEN expanduser(Desktop)
                        ELSE cl.output_path
     IN  /\ ops' = ops \o EnsureDirOps(fs, output_path)
         /\ fs' = EnsureDir(fs, output_path)
         /\ cl' = [cl EXCEPT !.app_path = app_path, !.app_name = app_name,
                             !.output_path = output_path,
                             !.launcher_path = join(output_path, WithExt(app_name, "app"))]
  /\ pc' = "write_temp"
  /\ UNCHANGED << platform, entry, argv, disk, ret, electron_apps, choice,
                  selected_apps, idx, calls, exc, out >>

\* tempfile.NamedTemporaryFile(suffix='.applescript'): a fresh name per call
TempName(k) == << <<"">>, <<"tmp">>, << "tmp" \o ToString(k), "applescript" >> >>

\* create_launcher, lines 98-109: the AppleScript source
CL_WriteTemp ==
  /\ IsElectronRun /\ pc = "write_temp"
  /\ LET temp_file_path == TempName(Len(calls)) IN
       /\ fs' = writefile(fs, temp_file_path,
                          [text |-> "do shell script open --args --use-angle=gl",
                           target |-> cl.app_path])
       /\ ops' = Append(ops, Op("write", temp_file_path))
       /\ cl' = [cl EXCEPT !.temp_file_path = temp_file_path]
  /\ pc' = "compile"
  /\ UNCHANGED << platform, entry, argv, disk, ret, electron_apps, choice,
                  selected_apps, idx, calls, exc, out >>

\* create_launcher, lines 111-120: subprocess.run(["osacompile", ...], check=True)
CL_Compile ==
  /\ IsElectronRun /\ pc = "compile"
  /\ \E outcome \in CompilerOutcomes :
       /\ cl' = [cl EXCEPT !.result = outcome]
       /\ ops' = Append(ops, Op("osacompile", cl.launcher_path))
       /\ IF outcome = "ok"
          THEN /\ fs' = (makedirs(fs, cl.launcher_path) \ { DirNode(cl.launcher_path) })
                          \cup { [path |-> cl.launcher_path, kind |-> "dir", mode |-> "default",
                                  content |-> NodeAt(fs, cl.temp_file_path).content] }
               /\ out' = Append(out, "Launcher created successfully")
          ELSE UNCHANGED << fs, out >>
  /\ pc' = "finally"
  /\ UNCHANGED << platform, entry, argv, disk, ret, electron_apps, choice,
                  selected_apps, idx, calls, exc >>

\* the exception subprocess.run raises for a compiler outcome
Raised(outcome) ==
  CASE outcome = "nonzero" -> "CalledProcessError"
    [] outcome = "cannot_start" -> "FileNotFoundError"
    [] OTHER -> "none"

\* create_launcher, lines 121-123, and the return to main: the temporary file
\* is removed, then the call returns or its exception leaves main, which has
\* no handler around the call
CL_Finally ==
  /\ IsElectronRun /\ pc = "finally"
  /\ fs' = unlink(fs, cl.temp_file_path)
  /\ ops' = Append(ops, Op("unlink", cl.temp_file_path))
  /\ IF cl.result = "ok"
     THEN /\ pc' = IF cl.caller = "loop" THEN "loop" ELSE "done"
          /\ idx' = IF cl.caller = "loop" THEN idx + 1 ELSE idx
          /\ UNCHANGED exc
     ELSE /\ pc' = "crashed"
          /\ exc' = Raised(cl.result)
          /\ UNCHANGED idx
  /\ UNCHANGED << platform, entry, argv, disk, ret, electron_apps, choice,
                  selected_apps, calls, cl, out >>

NextElectron ==
  \/ E_WrongPlatform \/ E_AppMode \/ E_ScanMode \/ E_Help \/ E_Select
  \/ E_Loop \/ E_LoopEnd \/ CL_Prepare \/ CL_WriteTemp \/ CL_Compile \/ CL_Finally

\* ------------------------------------------- create_vscode_launcher.py runs
VsArgs ==
  { [NoArgs EXCEPT !.name = n, !.output = o] :
      n \in { <<>>, CustomName }, o \in Outputs } \ { [NoArgs EXCEPT !.output = o] : o \in Outputs \ { <<>> } }

InitVS ==
  /\ entry = "create_vscode_launcher"
  /\ platform \in { "Darwin", "Linux" }
  /\ argv \in VsArgs
  /\ disk = NoDisk
  /\ \E target \in BOOLEAN, outdir \in BOOLEAN, icon \in BOOLEAN :
       fs = BaseFs \cup (IF target THEN { DirNode(vscode_path) } ELSE {})
                   \cup (IF outdir THEN { DirNode(TmpOut) } ELSE {})
                   \cup (IF icon THEN { FileNode(IconPath, "default",
                                                 [text |-> "icns", target |-> <<>>]) } ELSE {})
  /\ pc = "main" /\ ret = <<>>
  /\ electron_apps = <<>> /\ choice = <<>> /\ selected_apps = <<>> /\ idx = 0
  /\ calls = <<>> /\ cl = NoFrame /\ exc = "none" /\ ops = <<>> /\ out = <<>>

IsVsRun == entry = "create_vscode_launcher"

DefaultVsName == << "VS Code with OpenGL" >>

ShellScript == [text |-> "#!/bin/bash open --args --use-angle=gl", target |-> vscode_path]

\* main, lines 142-167: arguments and the check that VS Code is installed
VS_Main ==
  /\ IsVsRun /\ pc = "main"
  /\ cl' = [NoFrame EXCEPT
              !.app_name = IF argv.name # <<>> THEN argv.name ELSE DefaultVsName,
              !.output_path = IF argv.output # <<>> THEN argv.output ELSE expanduser(Desktop),
              !.app_path = vscode_path]
  /\ ops' = Append(ops, Op("exists", vscode_path))
  /\ out' = out \o (IF ~exists(fs, vscode_path) THEN << "Warning: VS Code not found" >>
                    ELSE << "Found VS Code" >>)
  /\ pc' = "create_shell_launcher"
  /\ UNCHANGED << platform, entry, argv, disk, fs, ret, electron_apps, choice,
                  selected_apps, idx, calls, exc >>

\* create_shell_launcher, lines 22-62
VS_ShellLauncher ==
  /\ IsVsRun /\ pc = "create_shell_launcher"
  /\ LET app_path    == IF cl.output_path = <<>> THEN expanduser(Desktop) ELSE cl.output_path
         script_path == join(app_path, WithExt(cl.app_name, "command"))
     IN  /\ fs' = chmod755(writefile(EnsureDir(fs, app_path), script_path, ShellScript),
                           script_path)
         /\ ops' = ops \o EnsureDirOps(fs, app_path)
                       \o << Op("write", script_path), Op("chmod", script_path) >>
         /\ calls' = Append(calls, [app_path |-> cl.app_path, app_name |-> cl.app_name,
                                    output_path |-> app_path])
         /\ out' = Append(out, "Launcher .command created successfully")
  /\ pc' = "create_app_bundle"
  /\ UNCHANGED << platform, entry, argv, disk, ret, electron_apps, choice,
                  selected_apps, idx, cl, exc >>

contents_dir(c) == join(join(c.output_path, WithExt(c.app_name, "app")), <<"Contents">>)

macos_dir(c) == join(contents_dir(c), <<"MacOS">>)

resources_dir(c) == join(contents_dir(c), <<"Resources">>)

plist_path(c) == join(contents_dir(c), <<"Info", "plist">>)

executable_path(c) == join(macos_dir(c), c.app_name)

\* create_app_bundle, lines 72-132: skeleton, Info.plist and executable stub
VS_BundleFiles ==
  /\ IsVsRun /\ pc = "create_app_bundle"
  /\ LET f1 == EnsureDir(fs, cl.output_path)
         f2 == makedirs(makedirs(f1, macos_dir(cl)), resources_dir(cl))
         f3 == writefile(f2, plist_path(cl), [text |-> "Info.plist", target |-> <<>>])
         f4 == writefile(f3, executable_path(cl), ShellScript)
     IN  /\ fs' = chmod755(f4, executable_path(cl))
         /\ ops' = ops \o EnsureDirOps(fs, cl.output_path)
                       \o << Op("makedirs", macos_dir(cl)), Op("makedirs", resources_dir(cl)),
                             Op("write", plist_path(cl)), Op("write", executable_path(cl)),
                             Op("chmod", executable_path(cl)) >>
  /\ pc' = "copy_icon"
  /\ UNCHANGED << platform, entry, argv, disk, ret, electron_apps, choice,
                  selected_apps, idx, calls, cl, exc, out >>

\* create_app_bundle, lines 134-140, and main, lines 171-178:
\* shutil.copy("./icons/code_gl.icns", resources_dir)
VS_CopyIcon ==
  /\ IsVsRun /\ pc = "copy_icon"
  /\ ops' = Append(ops, Op("copy", IconPath))
  /\ IF exists(fs, IconPath)
     THEN /\ fs' = writefile(fs, join(resources_dir(cl), basename(IconPath)),
                             NodeAt(fs, IconPath).content)
          /\ out' = out \o << "Application .app created successfully", "Created two launchers" >>
          /\ pc' = "done"
          /\ UNCHANGED exc
     ELSE /\ exc' = "FileNotFoundError"
          /\ pc' = "crashed"
          /\ UNCHANGED << fs, out >>
  /\ UNCHANGED << platform, entry, argv, disk, ret, electron_apps, choice,
                  selected_apps, idx, calls, cl >>

NextVS == VS_Main \/ VS_ShellLauncher \/ VS_BundleFiles \/ VS_CopyIcon

\* ------------------------------------------------------------ specification
Init == InitElectron \/ InitVS

Next == NextElectron \/ NextVS

Spec == Init /\ [][Next]_vars

\* ================================================================ claims
\* a name starts with '.'
DotName(n) == Len(n) >= 2 /\ Head(n) = ""

IsMarker(n) == \E i \in 1..Len(electron_indicators) : electron_indicators[i] = n

ProbedEntry == disk.entries[1]

MarkerAnywhere(t) == \E p \in t : IsMarker(Last(p))

\* a marker directly under the root of a searchable bundle, or below a chain
\* of directories without a dot-name in a listable bundle
MarkerReachable(t, perm) ==
  \E p \in t :
     /\ IsMarker(Last(p))
     /\ \/ Len(p) = 1 /\ perm # "none"
        \/ perm = "rx" /\ \A i \in 1..(Len(p) - 1) : ~DotName(p[i])

PositionOf(n) == CHOOSE i \in 1..Len(disk.entries) : disk.entries[i].name = n

ListedNames == { disk.entries[i].name : i \in 1..Len(disk.entries) }

ScanReturned == entry = "find_electron_apps" /\ pc = "returned"

\* the result is exactly the immediate entries in Wanted, once each, in
\* listing order, and empty for a missing or unreadable directory
ScanResultIs(Wanted) ==
  /\ \A i \in 1..Len(ret) : Len(ret[i]) = 1 /\ ret[i][1] \in Wanted
  /\ (disk.exists /\ disk.readable) => \A n \in Wanted : \E i \in 1..Len(ret) : ret[i] = <<n>>
  /\ \A i, j \in 1..Len(ret) : i < j => PositionOf(ret[i][1]) < PositionOf(ret[j][1])
  /\ (~disk.exists \/ ~disk.readable) => ret = <<>>

Selected == IsElectronRun /\ choice # <<>>

QuitLine == << <<"q">> >>

AllLine == << <<"a", "l", "l">> >>

\* the decimal text of a small integer
TextOf(v) ==
  LET d == <<"0", "1", "2", "3", "4", "5", "6", "7", "8", "9">>
  IN  IF v < 0 THEN << "-", d[1 - v] >> ELSE << d[v + 1] >>

NoBlanks(f) == SelectSeq(f, LAMBDA c : c # " ")

IsIntegerText(f) == \E v \in -9..9 : NoBlanks(f) = TextOf(v)

IntegerOf(f) == CHOOSE v \in -9..9 : NoBlanks(f) = TextOf(v)

IntegerLine(line) == \A k \in 1..Len(line) : IsIntegerText(line[k])

\* a field holding a character that no integer text contains
NonNumeric(f) == \E k \in 1..Len(f) : f[k] \notin Digits \cup { " ", "+", "-" }

RECURSIVE Picked(_, _)
Picked(fields, L) ==
  IF fields = <<>> THEN <<>>
  ELSE LET i == IntegerOf(Head(fields))
       IN  (IF 1 <= i /\ i <= Len(L) THEN << L[i] >> ELSE <<>>) \o Picked(Tail(fields), L)

\* the applications handed to create_launcher so far, in order
Generated == [k \in 1..Len(calls) |-> calls[k].app_path]

\* C1: in scan mode a compiler failure for one selected application aborts only
\* that application's generation: with two or more applications selected, a
\* finished run has invoked create_launcher for every one of them and was not
\* terminated by the failure.
C1_FailureIsPerItem ==
  (IsElectronRun /\ argv.app = <<>> /\ Len(selected_apps) >= 2 /\ pc \in { "done", "crashed" })
     => (pc = "done" /\ Generated = selected_apps)

\* C2 as stated: a non-numeric field is silently dropped; the in-range indices
\* typed on the same line are still selected and receive launchers.
C2_AsStated ==
  (Selected /\ choice \notin { QuitLine, AllLine }
            /\ (\E k \in 1..Len(choice) : NonNumeric(choice[k]))
            /\ (\E k \in 1..Len(choice) :
                  IsIntegerText(choice[k]) /\ IntegerOf(choice[k]) \in 1..Len(electron_apps)))
     => (selected_apps # <<>> /\ exc = "none")

\* C2 amended: a non-numeric field in a comma-separated selection line is not
\* fatal but rejects the whole line: "Invalid selection" is reported, nothing is
\* selected, create_launcher is never invoked and no exception escapes.
C2_Amended ==
  (Selected /\ ~LineIs(choice, <<"q">>) /\ ~LineIs(choice, <<"a", "l", "l">>)
            /\ (\E k \in 1..Len(choice) : NonNumeric(choice[k])))
     => /\ selected_apps = <<>> /\ calls = <<>>
        /\ pc = "done" /\ exc = "none"
        /\ Last(out) = "Invalid selection"

\* the line "1,x" was read against a non-empty list
C2_Witness ==
  /\ Selected /\ choice = << <<"1">>, <<"x">> >> /\ electron_apps # <<>>
  /\ pc = "done"

\* C3: 'q' selects nothing and nothing more happens; 'all' selects the whole
\* scan result in scan order; a comma-separated list of integers selects
\* exactly L[i-1] for the fields i with 1 <= i <= len(L), in the order typed;
\* create_launcher receives the selected applications in that order.
C3_Selection ==
  Selected =>
    /\ choice = QuitLine =>
         (pc = "done" /\ selected_apps = <<>> /\ calls = <<>> /\ Last(ops).op = "input")
    /\ choice = AllLine => selected_apps = electron_apps
    /\ IntegerLine(choice) => selected_apps = Picked(choice, electron_apps)
    /\ (choice = AllLine \/ IntegerLine(choice)) =>
         /\ Len(Generated) <= Len(selected_apps)
         /\ Generated = SubSeq(selected_apps, 1, Len(Generated))
         /\ pc = "done" => Generated = selected_apps

\* "2,1" was read and both launchers were generated, the second entry first
C3_Witness ==
  /\ Selected /\ choice = << <<"2">>, <<"1">> >> /\ pc = "done"
  /\ Len(electron_apps) >= 2
  /\ Generated = << electron_apps[2], electron_apps[1] >>

\* ------------------------------------------------------------- generator
\* create_launcher is not between writing its temporary file and removing it
OutsideCompile == pc \notin { "compile", "finally" }

\* C4: once create_launcher has written its AppleScript source, the file is
\* gone when the call returns or raises, whether the compiler succeeded, exited
\* non-zero or could not be started, and a failure still reaches the caller.
C4_TempFileRemoved ==
  (IsElectronRun /\ OutsideCompile) =>
     /\ \A k \in 1..Len(calls) : ~exists(fs, TempName(k))
     /\ (cl.result = "nonzero" /\ cl.temp_file_path # <<>>) =>
           (pc = "crashed" /\ exc = "CalledProcessError")
     /\ (cl.result = "cannot_start" /\ cl.temp_file_path # <<>>) =>
           (pc = "crashed" /\ exc = "FileNotFoundError")

\* the compiler exited non-zero, the source was written and removed again, and
\* the exception left the call
C4_Witness ==
  /\ IsElectronRun /\ pc = "crashed" /\ exc = "CalledProcessError"
  /\ \E i, j \in 1..Len(ops) :
       /\ i < j /\ ops[i].op = "write" /\ ops[j].op = "unlink"
       /\ ops[i].path = ops[j].path
  /\ ~exists(fs, cl.temp_file_path)

StartsWithTilde(p) == p # <<>> /\ Head(p) = <<"~">>

\* C5: home-directory expansion is applied to the target and to the output
\* path before any filesystem operation: no existence check, directory
\* creation, write or compiler run ever uses a path that starts with '~'.
C5_PathsExpanded ==
  \A i \in 1..Len(ops) : ~StartsWithTilde(ops[i].path)

\* C6: on a platform other than macOS every entry point exits before any
\* directory scan, prompt, process invocation or filesystem access.
C6_NoWorkOffPlatform ==
  platform # "Darwin" => (ops = <<>> /\ calls = <<>>)

TargetPath == IF IsVsRun THEN vscode_path ELSE expanduser(argv.app)

FixedTargetRun == IsVsRun \/ (IsElectronRun /\ argv.app # <<>>)

IsWarning(m) == m = "Warning: VS Code not found" \/ m = "Warning: application not found"

\* C9: in every generation entry point a target that does not exist on disk is
\* reported as a warning and the launcher is generated all the same.
C9_MissingTargetWarned ==
  (FixedTargetRun /\ pc = "done" /\ calls # <<>> /\ ~exists(fs, TargetPath))
     => \E i \in 1..Len(out) : IsWarning(out[i])

IsExecutableFile(f, p) ==
  exists(f, p) /\ NodeAt(f, p).kind = "file" /\ NodeAt(f, p).mode = "0o755"

IsDir(f, p) == exists(f, p) /\ NodeAt(f, p).kind = "dir"

CommandPath == join(cl.output_path, WithExt(cl.app_name, "command"))

\* C10: with './icons/code_gl.icns' absent the fixed-target run fails in
\* create_app_bundle only after the skeleton, Info.plist and the executable stub
\* (mode 0755) are on disk; they stay there, and the .command launcher written
\* earlier is present, executable and unchanged.  With the icon present the run
\* does not fail.
C10_IconMissingNoRollback ==
  IsVsRun =>
    /\ pc = "crashed" =>
         /\ exc = "FileNotFoundError" /\ ~exists(fs, IconPath)
         /\ IsDir(fs, macos_dir(cl)) /\ IsDir(fs, resources_dir(cl))
         /\ exists(fs, plist_path(cl))
         /\ IsExecutableFile(fs, executable_path(cl))
         /\ IsExecutableFile(fs, CommandPath)
         /\ NodeAt(fs, CommandPath).content = ShellScript
    /\ (pc = "done" => exists(fs, IconPath))
    /\ (pc = "copy_icon" => IsExecutableFile(fs, CommandPath))

\* the run failed on the missing icon
C10_Witness ==
  /\ IsVsRun /\ pc = "crashed" /\ ~exists(fs, IconPath)
  /\ Last(ops) = Op("copy", IconPath)

====
